---- MODULE Spec2Model ----
(***************************************************************************)
(* M&A Radar Maroc: signal deduplication (main.py) and the scoring engine  *)
(* (scoring/engine.py), with the thresholds and weight table of config.py. *)
(*                                                                         *)
(* Python dicts are functions from key strings to tagged values; a key     *)
(* that is absent from the dict is absent from the function's DOMAIN, a    *)
(* key holding None holds Nul.  A Python str is a sequence of lexemes: a    *)
(* character Car(c), or (in an oracle answer) Doc(v), the characters of    *)
(* one serialized JSON document whose value is v; a document holding a     *)
(* string with three backquotes in it is Frag(v, 1), the backquotes, and   *)
(* Frag(v, 2).  Where only whole words matter (tags, rule keys, markers)   *)
(* one Car stands for the word's run of characters.                        *)
(***************************************************************************)
EXTENDS Integers, Sequences, FiniteSets, TLC

VARIABLES
    config,        \* the thresholds config.py holds when the engine is imported
    pc,            \* control point of the caller
    tous_signaux,  \* run_pipeline / _dedupliquer: the raw signal list
    signaux,       \* the list handed to the engine (signaux_uniques in run_pipeline)
    appels,        \* outcomes of the oracle calls made so far, in call order
    resultats,     \* analyser_batch: results in append order (before the sort)
    retour,        \* the list the call returned
    exception      \* the exception that reached the caller, "" when none

vars == <<config, pc, tous_signaux, signaux, appels, resultats, retour, exception>>

(***************************************************************************)
(* Bounds of the model.                                                    *)
(***************************************************************************)
MaxSignaux == 3     \* longest signal list handed to _dedupliquer
MaxLot     == 3     \* longest signal list handed to analyser_batch

(***************************************************************************)
(* Python values.                                                          *)
(***************************************************************************)
Nul       == [t |-> "nul"]
Txt(s)    == [t |-> "txt", s |-> s]
Ent(n)    == [t |-> "ent", n |-> n]
Bool(b)   == [t |-> "bool", b |-> b]
Liste(l)  == [t |-> "liste", l |-> l]
Obj(d)    == [t |-> "obj", d |-> d]

Car(c)    == [c |-> c]
Doc(v)    == [doc |-> v]
Frag(v, n) == [frag |-> v, n |-> n]
EstCar(x) == "c" \in DOMAIN x
EstDoc(x) == "doc" \in DOMAIN x
EstFrag(x) == "frag" \in DOMAIN x

Chars(s)  == [i \in 1..Len(s) |-> Car(s[i])]
Mot(w)    == Txt(<<Car(w)>>)
Vide      == Txt(<<>>)

EstTxt(v) == v.t = "txt"

\* bool(v) as Python's `or` / `if` take it
Vrai(v) ==
    CASE v.t = "nul"   -> FALSE
      [] v.t = "txt"   -> v.s # <<>>
      [] v.t = "ent"   -> v.n # 0
      [] v.t = "bool"  -> v.b
      [] v.t = "liste" -> v.l # <<>>
      [] OTHER         -> TRUE

\* d.get(k, defaut)
Get(d, k, defaut) == IF k \in DOMAIN d THEN d[k] ELSE defaut

\* {**a, **b}
Fusion(a, b) ==
    [k \in (DOMAIN a) \cup (DOMAIN b) |-> IF k \in DOMAIN b THEN b[k] ELSE a[k]]

\* outcome of a call: a value, or an exception raised
Ok(v)    == [ok |-> TRUE, v |-> v]
Leve(e)  == [ok |-> FALSE, e |-> e]

(***************************************************************************)
(* str operations.                                                         *)
(***************************************************************************)
Minuscule(c) ==
    CASE c = "A" -> "a"
      [] c = "B" -> "b"
      [] c = "J" -> "j"
      [] c = "S" -> "s"
      [] c = "O" -> "o"
      [] c = "N" -> "n"
      [] c = "Transmission" -> "transmission"
      [] c = "Succession"   -> "succession"
      [] c = "DISTRIB ATLAS SARL" -> "distrib atlas sarl"
      [] c = "INDUSTRIE MAGHREB SA" -> "industrie maghreb sa"
      [] c = "BTP NORD MAROC" -> "btp nord maroc"
      [] c = "Marjane Holding" -> "marjane holding"
      [] c = "Label'Vie" -> "label'vie"
      [] c = "Akdital" -> "akdital"
      [] c = "Dislog Group" -> "dislog group"
      [] c = "Secteur BTP : trois groupes marocains" -> "secteur btp : trois groupes marocains"
      [] c = "Un fonds PE emirati entre au capital" -> "un fonds pe emirati entre au capital"
      [] OTHER -> c

Lower(s) == [i \in 1..Len(s) |-> IF EstCar(s[i]) THEN Car(Minuscule(s[i].c)) ELSE s[i]]

EstBlanc(x) == EstCar(x) /\ x.c \in {" ", "\n"}

Minimum(S) == CHOOSE x \in S : \A y \in S : x <= y
Maximum(S) == CHOOSE x \in S : \A y \in S : x >= y

Entre(s, noirs) ==
    IF noirs = {} THEN <<>> ELSE SubSeq(s, Minimum(noirs), Maximum(noirs))

Strip(s) == Entre(s, {i \in 1..Len(s) : ~EstBlanc(s[i])})

\* s[:n]
Prefixe(s, n) == SubSeq(s, 1, IF Len(s) < n THEN Len(s) ELSE n)

\* s[n:]
Suffixe(s, n) == SubSeq(s, n + 1, Len(s))

StartsWith(s, p) == Len(s) >= Len(p) /\ SubSeq(s, 1, Len(p)) = p

Repete(c, n) == [i \in 1..n |-> Car(c)]

(***************************************************************************)
(* main.py: _dedupliquer.                                                  *)
(***************************************************************************)
LongueurCle == 50

\* the key without .lower()
CleSansLower(signal) ==
    LET e == Get(signal, "entreprise", Vide)
        t == Get(signal, "titre", Vide)
    IN  IF Vrai(e)
        THEN IF EstTxt(e) THEN Ok(Strip(e.s)) ELSE Leve("AttributeError")
        ELSE IF EstTxt(t) THEN Ok(Strip(Prefixe(t.s, LongueurCle)))
                          ELSE Leve("TypeError")

\* the key taken from the title first
CleTitreDAbord(signal) ==
    LET e == Get(signal, "entreprise", Vide)
        t == Get(signal, "titre", Vide)
    IN  IF EstTxt(t) /\ t.s # <<>>
        THEN Ok(Strip(Lower(Prefixe(t.s, LongueurCle))))
        ELSE IF EstTxt(e) THEN Ok(Strip(Lower(e.s))) ELSE Leve("AttributeError")

\* signal.get("entreprise", "") or signal.get("titre", "")[:50], then
\* .lower().strip(); None[:50] and None.lower() raise
Cle(signal) ==
    LET e == Get(signal, "entreprise", Vide)
        t == Get(signal, "titre", Vide)
    IN  IF Vrai(e)
        THEN IF EstTxt(e) THEN Ok(Strip(Lower(e.s))) ELSE Leve("AttributeError")
        ELSE IF EstTxt(t) THEN Ok(Strip(Lower(Prefixe(t.s, LongueurCle))))
                          ELSE Leve("TypeError")

RECURSIVE BoucleDedup(_, _, _, _)
BoucleDedup(liste, i, vus, uniques) ==
    IF i > Len(liste) THEN Ok(uniques)
    ELSE LET cle == Cle(liste[i])
         IN  IF ~cle.ok THEN cle
             ELSE IF cle.v # <<>> /\ cle.v \notin vus
                  THEN BoucleDedup(liste, i + 1, vus \cup {cle.v}, Append(uniques, liste[i]))
                  ELSE BoucleDedup(liste, i + 1, vus, uniques)

\* the loop started one element late
DedupSauteLePremier(liste) == BoucleDedup(liste, 2, {}, <<>>)

\* the loop without vus.add(cle)
RECURSIVE BoucleSansAjout(_, _, _)
BoucleSansAjout(liste, i, uniques) ==
    IF i > Len(liste) THEN Ok(uniques)
    ELSE LET cle == Cle(liste[i])
         IN  IF ~cle.ok THEN cle
             ELSE IF cle.v # <<>>
                  THEN BoucleSansAjout(liste, i + 1, Append(uniques, liste[i]))
                  ELSE BoucleSansAjout(liste, i + 1, uniques)

DedupSansAjout(liste) == BoucleSansAjout(liste, 1, <<>>)

_dedupliquer(liste) == BoucleDedup(liste, 1, {}, <<>>)

(***************************************************************************)
(* config.py: the weight table, in its declared order.                     *)
(***************************************************************************)
Regle(a, b, poids) == [cle |-> Chars(<<a, "_", b>>), poids |-> poids]
Regle3(a, b, c, poids) == [cle |-> Chars(<<a, "_", b, "_", c>>), poids |-> poids]

SCORING_WEIGHTS ==
    << Regle("transmission", "succession", 25),
       Regle3("acquereur", "actif", "secteur", 22),
       Regle("desinvestissement", "activite", 20),
       Regle3("besoin", "cash", "bfr", 18),
       Regle("gearing", "eleve", 16),
       Regle("investissements", "recents", 14),
       Regle("changement", "direction", 12),
       Regle3("recrutement", "profil", "ma", 10),
       Regle("expansion", "geographique", 8),
       Regle("consolidation", "sectorielle", 6) >>

(***************************************************************************)
(* scoring/engine.py: _parser_reponse.                                     *)
(***************************************************************************)
LongueurBrute == 200

\* three backquote characters
Fence == Chars(<<"backquote", "backquote", "backquote">>)
BaliseJson == Chars(<<"j", "s", "o", "n">>)

\* s.find(sep) + 1: the first index where sep occurs in s, 0 when it does not
PremierOuZero(ou) == IF ou = {} THEN 0 ELSE Minimum(ou)

Trouve(s, sep) ==
    PremierOuZero({i \in 1..(Len(s) - Len(sep) + 1) : SubSeq(s, i, i + Len(sep) - 1) = sep})

\* sep in s
Contient(s, sep) == Trouve(s, sep) # 0

\* s.split(sep)[1], for s holding sep at least once
Avant(reste, suite) == IF suite = 0 THEN reste ELSE SubSeq(reste, 1, suite - 1)

AvantSep(reste, sep) == Avant(reste, Trouve(reste, sep))

SplitIndice1(s, sep) == AvantSep(Suffixe(s, Trouve(s, sep) + Len(sep) - 1), sep)

\* the characters of a document v one of whose strings holds a fence
Coupe(v) == <<Frag(v, 1)>> \o Fence \o <<Frag(v, 2)>>

\* json.loads(s): s is one JSON document, whitespace around it allowed
UnDocument(t) ==
    IF Len(t) = 1 /\ EstDoc(t[1]) THEN Ok(t[1].doc)
    ELSE IF Len(t) = 5 /\ EstFrag(t[1]) /\ t = Coupe(t[1].frag) THEN Ok(t[1].frag)
    ELSE Leve("JSONDecodeError")

JsonLoads(s) == UnDocument(Strip(s))

\* if texte_clean.startswith("json"): texte_clean = texte_clean[4:]
SansBalise(dedans) ==
    IF StartsWith(dedans, BaliseJson) THEN Suffixe(dedans, 4) ELSE dedans

\* if texte_clean.startswith(fence): texte_clean = texte_clean.split(fence)[1] ...
SansFence(texte_clean) ==
    IF StartsWith(texte_clean, Fence)
    THEN SansBalise(SplitIndice1(texte_clean, Fence))
    ELSE texte_clean

Nettoye(texte) == SansFence(Strip(texte))

RecommandationParsing == Mot("Erreur de parsing - analyse manuelle requise")

\* the degraded result without pertinent = False
ParseDegradeSansPertinent(texte) ==
    [score_ia |-> Ent(0),
     recommandation |-> RecommandationParsing,
     raw_ia_response |-> Txt(Prefixe(texte, LongueurBrute))]

\* the except json.JSONDecodeError branch
ParseDegrade(texte) ==
    [score_ia |-> Ent(0),
     pertinent |-> Bool(FALSE),
     recommandation |-> RecommandationParsing,
     raw_ia_response |-> Txt(Prefixe(texte, LongueurBrute))]

\* the dict built from data; data.get raises when data is no JSON object
Extrait(data) ==
    IF data.t # "obj" THEN Leve("AttributeError")
    ELSE Ok([entreprise           |-> Get(data.d, "entreprise", Nul),
             secteur              |-> Get(data.d, "secteur", Mot("N/A")),
             type_deal_probable   |-> Get(data.d, "type_deal_probable", Mot("inconnu")),
             signaux_identifies   |-> Get(data.d, "signaux_identifies", Liste(<<>>)),
             score_ia             |-> Get(data.d, "score_ma", Ent(0)),
             urgence_ia           |-> Get(data.d, "urgence", Mot("faible")),
             fenetre_action       |-> Get(data.d, "fenetre_action", Mot("N/A")),
             recommandation       |-> Get(data.d, "recommandation", Vide),
             pertinent            |-> Get(data.d, "pertinent", Bool(TRUE)),
             raison_non_pertinent |-> Get(data.d, "raison_non_pertinent", Vide)])

\* the except json.JSONDecodeError branch, else the dict
ParseOuDegrade(texte, data) ==
    IF ~data.ok THEN Ok(ParseDegrade(texte)) ELSE Extrait(data.v)

_parser_reponse(texte) == ParseOuDegrade(texte, JsonLoads(Nettoye(texte)))

(***************************************************************************)
(* scoring/engine.py: _calculer_score_final.                               *)
(***************************************************************************)
Min2(a, b) == IF a < b THEN a ELSE b
Max2(a, b) == IF a > b THEN a ELSE b

\* " ".join(l) for a list of str
RECURSIVE Join(_)
Join(l) ==
    IF l = <<>> THEN <<>>
    ELSE IF Len(l) = 1 THEN l[1].s
    ELSE l[1].s \o <<Car(" ")>> \o Join(Tail(l))

\* cle.replace("_", " ")
Replace(cle) == [i \in 1..Len(cle) |-> IF cle[i] = Car("_") THEN Car(" ") ELSE cle[i]]

\* the inner loop over SCORING_WEIGHTS.items(): the weight of the first key
\* that matches the joined tags, 0 when the loop ends without a break
\* an inner loop that keeps the last matching key of the table
PoidsDuDernier(ok) == IF ok = {} THEN 0 ELSE SCORING_WEIGHTS[Maximum(ok)].poids

PoidsDuPremier(ok) == IF ok = {} THEN 0 ELSE SCORING_WEIGHTS[Minimum(ok)].poids

ClesDans(joint) ==
    {k \in 1..Len(SCORING_WEIGHTS) : Contient(joint, Replace(SCORING_WEIGHTS[k].cle))}

PremierPoids(signaux_ids) == PoidsDuPremier(ClesDans(Lower(Join(signaux_ids))))

\* the outer loop: one pass of the inner loop per element of signaux_ids
RECURSIVE BonusGrille(_, _)
BonusGrille(signaux_ids, i) ==
    IF i > Len(signaux_ids) THEN 0
    ELSE PremierPoids(signaux_ids) + BonusGrille(signaux_ids, i + 1)

\* int(score_ia * 0.7 + bonus_normalise) in IEEE-754 double arithmetic, for
\* -300 <= score_ia <= 300 and 0 <= bonus_normalise <= 30: int() truncates
\* toward zero; 0.7 is the double just below 7/10, so the product falls one
\* ulp short of the integer 7*score_ia/10 for |score_ia| in {90, 170, 180},
\* and that ulp survives the addition unless the sum passes the next power
\* of two (64, 128), where it is rounded away
EntierScore(score_ia, bonus) ==
    LET dix   == 7 * score_ia + 10 * bonus
        exact == IF dix >= 0 THEN dix \div 10 ELSE -((-dix) \div 10)
    IN  CASE score_ia = 90  /\ 63 + bonus <= 64   -> exact - 1
          [] score_ia = 170 /\ 119 + bonus <= 128 -> exact - 1
          [] score_ia = 180 /\ 126 + bonus <= 128 -> exact - 1
          [] score_ia \in {-90, -170, -180}       -> exact + 1
          [] OTHER                                -> exact

\* the "Bonus urgence" block
AvecUrgence(score_final, urgence) ==
    IF urgence = Mot("critique") THEN Min2(100, score_final + 10)
    ELSE IF urgence = Mot("fort") THEN Min2(100, score_final + 5)
    ELSE score_final

\* for ... in signaux_ids raises on None, " ".join(signaux_ids) on a non-str
\* element, score_ia * 0.7 on None and on a str (signaux_identifies is a list
\* or None in every input below, never a str or an object)
Calcul(score_ia, signaux_ids, urgence) ==
    IF signaux_ids.t # "liste" THEN Leve("TypeError")
    ELSE IF \E i \in 1..Len(signaux_ids.l) : ~EstTxt(signaux_ids.l[i]) THEN Leve("TypeError")
    ELSE IF score_ia.t # "ent" THEN Leve("TypeError")
    ELSE Ok(Min2(100, Max2(0,
            AvecUrgence(EntierScore(score_ia.n, Min2(30, BonusGrille(signaux_ids.l, 1) \div 3)),
                        urgence))))

\* the same without the final min(100, max(0, ...)) and the min(100, ...) of
\* the urgency bonus
CalculSansBorne(score_ia, signaux_ids, urgence) ==
    IF signaux_ids.t # "liste" THEN Leve("TypeError")
    ELSE IF \E i \in 1..Len(signaux_ids.l) : ~EstTxt(signaux_ids.l[i]) THEN Leve("TypeError")
    ELSE IF score_ia.t # "ent" THEN Leve("TypeError")
    ELSE Ok(EntierScore(score_ia.n, Min2(30, BonusGrille(signaux_ids.l, 1) \div 3))
            + (IF urgence = Mot("critique") THEN 10 ELSE IF urgence = Mot("fort") THEN 5 ELSE 0))

ScoreSansBorne(signal) ==
    CalculSansBorne(Get(signal, "score_ia", Ent(0)),
                    Get(signal, "signaux_identifies", Liste(<<>>)),
                    Get(signal, "urgence_ia", Mot("faible")))

_calculer_score_final(signal) ==
    Calcul(Get(signal, "score_ia", Ent(0)),
           Get(signal, "signaux_identifies", Liste(<<>>)),
           Get(signal, "urgence_ia", Mot("faible")))

(***************************************************************************)
(* scoring/engine.py: _determiner_niveau.  SEUIL_CRITIQUE and              *)
(* SEUIL_VIGILANCE are read from config; the RADAR floor is the literal 40.*)
(***************************************************************************)
PlancherRadar == 40

\* the two upper tiers exchanged
NiveauSansOrdre(score) ==
    IF score >= config.SEUIL_CRITIQUE THEN "VIGILANCE"
    ELSE IF score >= config.SEUIL_VIGILANCE THEN "CRITIQUE"
    ELSE IF score >= PlancherRadar THEN "RADAR"
    ELSE "FAIBLE"

_determiner_niveau(score) ==
    IF score >= config.SEUIL_CRITIQUE THEN "CRITIQUE"
    ELSE IF score >= config.SEUIL_VIGILANCE THEN "VIGILANCE"
    ELSE IF score >= PlancherRadar THEN "RADAR"
    ELSE "FAIBLE"

(***************************************************************************)
(* scoring/engine.py: analyser.  `issue` is what the oracle call does when *)
(* it is made: Ok(texte), the text of the answer, or Leve(e).              *)
(***************************************************************************)
\* the value sliced for the log line, before the try block
TitreJournal(signal) == Get(signal, "titre", Get(signal, "entreprise", Mot("N/A")))

\* the except branch
Degrade(signal, e) ==
    Fusion(signal, [score_final |-> Ent(0), niveau_alerte |-> Mot("ERREUR"), erreur |-> Mot(e)])

\* signal_enrichi["score_final"], signal_enrichi["niveau_alerte"]
Note(signal_enrichi, score) ==
    IF ~score.ok THEN score
    ELSE Ok(Fusion(signal_enrichi,
                   [score_final   |-> Ent(score.v),
                    niveau_alerte |-> Mot(_determiner_niveau(score.v))]))

Enrichi(signal_enrichi) == Note(signal_enrichi, _calculer_score_final(signal_enrichi))

\* signal_enrichi = {**signal, **resultat}
Enrichit(signal, resultat) ==
    IF ~resultat.ok THEN resultat ELSE Enrichi(Fusion(signal, resultat.v))

\* the try block
Essai(signal, issue) ==
    IF ~issue.ok THEN Leve(issue.e) ELSE Enrichit(signal, _parser_reponse(issue.v))

\* except Exception as e
Rattrape(signal, essai) == IF essai.ok THEN essai ELSE Ok(Degrade(signal, essai.e))

analyser(signal, issue) ==
    IF ~EstTxt(TitreJournal(signal)) THEN Leve("TypeError")
    ELSE Rattrape(signal, Essai(signal, issue))

(***************************************************************************)
(* scoring/engine.py: analyser_batch's sort, list.sort(key, reverse=True): *)
(* stable, elements of equal key keep their order.                         *)
(***************************************************************************)
ScoreDe(x) == Get(x, "score_final", Ent(0)).n

RECURSIVE Insere(_, _)
Insere(l, x) ==
    IF l = <<>> THEN <<x>>
    ELSE IF ScoreDe(Head(l)) >= ScoreDe(x) THEN <<Head(l)>> \o Insere(Tail(l), x)
    ELSE <<x>> \o l

RECURSIVE InsereAvant(_, _)
InsereAvant(l, x) ==
    IF l = <<>> THEN <<x>>
    ELSE IF ScoreDe(Head(l)) > ScoreDe(x) THEN <<Head(l)>> \o InsereAvant(Tail(l), x)
    ELSE <<x>> \o l

RECURSIVE TriDepuis(_, _, _)
TriDepuis(l, i, acc) ==
    IF i > Len(l) THEN acc ELSE TriDepuis(l, i + 1, Insere(acc, l[i]))

RECURSIVE TriInstableDepuis(_, _, _)
TriInstableDepuis(l, i, acc) ==
    IF i > Len(l) THEN acc ELSE TriInstableDepuis(l, i + 1, InsereAvant(acc, l[i]))

\* a descending sort that reverses the elements of equal score
TriInstable(l) == TriInstableDepuis(l, 1, <<>>)

\* no sort at all: the results in the order of the loop
SansTri(l) == l

TriDecroissant(l) == TriDepuis(l, 1, <<>>)

(***************************************************************************)
(* scoring/engine.py: analyser_batch's loop.  issues[i] is what the oracle *)
(* does at the i-th call.  An exception of analyser is not caught: it      *)
(* leaves the loop at index i and resultats is lost.                       *)
(***************************************************************************)
Abandon(e, i) == [ok |-> FALSE, e |-> e, i |-> i]

RECURSIVE BoucleLot(_, _, _, _)
RECURSIVE AjouteEtContinue(_, _, _, _, _)
\* resultats.append(resultat)
AjouteEtContinue(liste, issues, i, res, resultat) ==
    IF ~resultat.ok THEN Abandon(resultat.e, i)
    ELSE BoucleLot(liste, issues, i + 1, Append(res, resultat.v))

\* for signal in signaux: resultat = self.analyser(signal)
BoucleLot(liste, issues, i, res) ==
    IF i > Len(liste) THEN Ok(res)
    ELSE AjouteEtContinue(liste, issues, i, res, analyser(liste[i], issues[i]))

(***************************************************************************)
(* Signals, in the shapes the collectors build them (scrapers/*.py) and    *)
(* in the shapes a caller of the engine may hand over.                     *)
(***************************************************************************)
\* scrapers/ompic.py _parser_entry: no "titre" key, "entreprise" a string
SignalOmpic(e) ==
    [source |-> Mot("OMPIC"), entreprise |-> Txt(e),
     signal_type |-> Mot("changement_direction")]

\* scrapers/presse.py _construire_signal: "titre" a string, "entreprise" None
\* (or a string in the other collectors)
SignalPresse(t, e) ==
    [source |-> Mot("Presse"), titre |-> Txt(t), entreprise |-> e,
     signal_type |-> Mot("acquereur_actif_secteur")]

TitreLong(c) == Repete("b", LongueurCle) \o Chars(<<c>>)

SignauxBruts ==
    { SignalOmpic(Chars(<<"A">>)),
      SignalOmpic(Chars(<<" ", "a", " ">>)),
      SignalOmpic(<<>>),
      SignalOmpic(Chars(<<" ">>)),
      SignalPresse(Chars(<<"a">>), Nul),
      SignalPresse(Chars(<<"b">>), Txt(Chars(<<"A">>))),
      SignalPresse(Chars(<<" ", " ">>), Nul),
      SignalPresse(Chars(<<"a", " ", "b">>), Nul),
      SignalPresse(Chars(<<"a", " ", " ", "b">>), Nul),
      SignalPresse(TitreLong("A"), Nul),
      SignalPresse(TitreLong("b"), Nul),
      [source |-> Mot("Presse"), titre |-> Nul, entreprise |-> Nul] }

\* every list of at most n elements of S
Listes(S, n) == UNION {[1..k -> S] : k \in 0..n}

SeuilsDefaut == [SEUIL_CRITIQUE |-> 80, SEUIL_VIGILANCE |-> 60, SEUIL_RADAR |-> 40]

(***************************************************************************)
(* Calling _dedupliquer on a raw list.                                     *)
(***************************************************************************)
InitDedup ==
    /\ config = SeuilsDefaut
    /\ pc = "dedup"
    /\ tous_signaux \in Listes(SignauxBruts, MaxSignaux)
    /\ signaux = <<>>
    /\ appels = <<>>
    /\ resultats = <<>>
    /\ retour = <<>>
    /\ exception = ""

FinDedup(r) ==
    IF r.ok
    THEN /\ signaux' = r.v
         /\ exception' = ""
    ELSE /\ signaux' = <<>>
         /\ exception' = r.e

Dedupliquer ==
    /\ pc = "dedup"
    /\ FinDedup(_dedupliquer(tous_signaux))
    /\ pc' = "dedup_fin"
    /\ UNCHANGED <<config, tous_signaux, appels, resultats, retour>>

NextDedup == Dedupliquer

SpecDedup == InitDedup /\ [][NextDedup]_vars

(***************************************************************************)
(* Properties of _dedupliquer.                                             *)
(***************************************************************************)
\* the elements of liste at the indices of I, in increasing index order
SousSuite(liste, I) ==
    [n \in 1..Cardinality(I) |->
        liste[CHOOSE i \in I : Cardinality({j \in I : j <= i}) = n]]

\* indices holding the first occurrence of a non-empty key
PremieresOccurrences(liste) ==
    {i \in 1..Len(liste) :
        /\ Cle(liste[i]).v # <<>>
        /\ \A j \in 1..(i - 1) : Cle(liste[j]).v # Cle(liste[i]).v}

DedupRetourne == pc = "dedup_fin" /\ exception = ""

\* C9: when _dedupliquer returns, its output is the input restricted, in input
\* order, to the first occurrence of every non-empty key; the retained signals
\* are the input signals themselves (nothing of a duplicate is merged in) and
\* no two of them share a key.
C9_PremiereOccurrence ==
    DedupRetourne =>
        /\ signaux = SousSuite(tous_signaux, PremieresOccurrences(tous_signaux))
        /\ \A i, j \in 1..Len(signaux) :
              i # j => Cle(signaux[i]).v # Cle(signaux[j]).v

\* a later signal with other fields and an already-seen key was dropped
C9_Temoin ==
    /\ DedupRetourne
    /\ \E i, j \in 1..Len(tous_signaux) :
          /\ i < j
          /\ tous_signaux[i] # tous_signaux[j]
          /\ Cle(tous_signaux[i]).v = Cle(tous_signaux[j]).v
          /\ Cle(tous_signaux[i]).v # <<>>
          /\ signaux = <<tous_signaux[i]>>

\* C10: deduplicating the list _dedupliquer returned gives that same list.
C10_Idempotence ==
    DedupRetourne => _dedupliquer(signaux) = Ok(signaux)

\* a run that dropped something and kept at least two signals
C10_Temoin ==
    /\ DedupRetourne
    /\ Len(signaux) >= 2
    /\ Len(signaux) < Len(tous_signaux)

\* the company name of a signal, when it is present and non-empty
NomDe(signal) == Get(signal, "entreprise", Nul)

ANom(signal) == EstTxt(NomDe(signal)) /\ NomDe(signal).s # <<>>

\* case-folded and trimmed
Plie(s) == Strip(Lower(s))

TitreDe(signal) == Get(signal, "titre", Vide)

\* the identity of a signal: its company name when present and non-empty,
\* otherwise the first 50 characters of its title, case-folded and trimmed
Identite(signal) ==
    IF ANom(signal) THEN Plie(NomDe(signal).s)
    ELSE IF EstTxt(TitreDe(signal)) THEN Plie(SubSeq(TitreDe(signal).s, 1, Min2(50, Len(TitreDe(signal).s))))
    ELSE <<>>

\* the pairs of input signals whose company names are equal once folded
MemeNomPlie(i, j) ==
    /\ i < j
    /\ ANom(tous_signaux[i])
    /\ ANom(tous_signaux[j])
    /\ Plie(NomDe(tous_signaux[i]).s) = Plie(NomDe(tous_signaux[j]).s)

\* the indices of the returned signals whose company name folds to k
RetenusDeNom(k) ==
    {n \in 1..Len(signaux) : ANom(signaux[n]) /\ Plie(NomDe(signaux[n]).s) = k}

RetenusDIdentite(k) == {n \in 1..Len(signaux) : Identite(signaux[n]) = k}

PremierDeNom(k) ==
    Minimum({m \in 1..Len(tous_signaux) :
                ANom(tous_signaux[m]) /\ Plie(NomDe(tous_signaux[m]).s) = k})

PremierDIdentite(k) ==
    Minimum({m \in 1..Len(tous_signaux) : Identite(tous_signaux[m]) = k})

\* C11: of the input signals whose company names are identical after
\* case-folding (they differ only in case/whitespace), exactly the first one
\* is in the output of _dedupliquer.
C11_PremierDuNom ==
    DedupRetourne =>
        \A i, j \in 1..Len(tous_signaux) :
            MemeNomPlie(i, j) =>
                /\ Cardinality(RetenusDeNom(Plie(NomDe(tous_signaux[i]).s))) = 1
                /\ \A n \in RetenusDeNom(Plie(NomDe(tous_signaux[i]).s)) :
                      signaux[n] = tous_signaux[PremierDeNom(Plie(NomDe(tous_signaux[i]).s))]

\* C11: of the input signals whose company names are identical and non-empty
\* after lower-casing and trimming, none but the first can be in the output:
\* the output holds exactly one signal of that identity, the first input
\* signal having it (the first of these company names, unless an earlier
\* signal without company name has a title giving the same key).
C11_PremierDeLIdentite ==
    DedupRetourne =>
        \A i, j \in 1..Len(tous_signaux) :
            (MemeNomPlie(i, j) /\ Plie(NomDe(tous_signaux[i]).s) # <<>>) =>
                /\ Cardinality(RetenusDIdentite(Plie(NomDe(tous_signaux[i]).s))) = 1
                /\ \A n \in RetenusDIdentite(Plie(NomDe(tous_signaux[i]).s)) :
                      signaux[n] = tous_signaux[PremierDIdentite(Plie(NomDe(tous_signaux[i]).s))]

\* two company names that differ in case and whitespace only; the first signal
\* alone is returned
C11_Temoin ==
    /\ DedupRetourne
    /\ Len(tous_signaux) = 2
    /\ MemeNomPlie(1, 2)
    /\ NomDe(tous_signaux[1]) # NomDe(tous_signaux[2])
    /\ Plie(NomDe(tous_signaux[1]).s) # <<>>
    /\ signaux = <<tous_signaux[1]>>

\* C12: the key _dedupliquer uses is the company name when present and
\* non-empty, otherwise the first 50 characters of the title, case-folded and
\* trimmed; the signals whose key is empty (an empty or whitespace-only name
\* or title) are exactly the ones left out for their key: none of them is
\* returned, and every non-empty key of the input is the key of a returned
\* signal.
C12_CleEtCleVide ==
    DedupRetourne =>
        /\ \A i \in 1..Len(tous_signaux) : Cle(tous_signaux[i]) = Ok(Identite(tous_signaux[i]))
        /\ \A n \in 1..Len(signaux) : Identite(signaux[n]) # <<>>
        /\ \A i \in 1..Len(tous_signaux) :
              Identite(tous_signaux[i]) = <<>> =>
                  \A n \in 1..Len(signaux) : signaux[n] # tous_signaux[i]
        /\ {Identite(signaux[n]) : n \in 1..Len(signaux)} =
              {Identite(tous_signaux[i]) : i \in 1..Len(tous_signaux)} \ {<<>>}

\* a whitespace-only company name, a whitespace-only title and a title longer
\* than 50 characters: only the last signal is returned
C12_Temoin ==
    /\ DedupRetourne
    /\ Len(tous_signaux) = 3
    /\ ANom(tous_signaux[1])
    /\ Identite(tous_signaux[1]) = <<>>
    /\ ~ANom(tous_signaux[2])
    /\ TitreDe(tous_signaux[2]).s # <<>>
    /\ Identite(tous_signaux[2]) = <<>>
    /\ Len(TitreDe(tous_signaux[3]).s) > 50
    /\ signaux = <<tous_signaux[3]>>

(***************************************************************************)
(* Inputs of the engine: configurations, signals, and what the oracle does.*)
(***************************************************************************)
\* config.py as shipped, and as an operator may edit it
Configs ==
    { SeuilsDefaut,
      [SEUIL_CRITIQUE |-> 80, SEUIL_VIGILANCE |-> 60, SEUIL_RADAR |-> 30],
      [SEUIL_CRITIQUE |-> 90, SEUIL_VIGILANCE |-> 70, SEUIL_RADAR |-> 50] }

TagTS          == Txt(Chars(<<"transmission", "_", "succession">>))
TagTSEspace    == Txt(Chars(<<"transmission", " ", "succession">>))
TagGearing     == Txt(Chars(<<"gearing", " ", "eleve">>))
TagAASEspace   == Txt(Chars(<<"acquereur", " ", "actif", " ", "secteur">>))

\* a signal that already went through the engine once
SignalDejaScore ==
    Fusion(SignalPresse(Chars(<<"a">>), Txt(Chars(<<"A">>))),
           [signaux_identifies |-> Liste(<<Mot("transmission"), Mot("succession")>>),
            urgence_ia |-> Mot("critique"),
            score_ia |-> Ent(85),
            pertinent |-> Bool(TRUE)])

SignauxEngine ==
    { SignalOmpic(Chars(<<"A">>)),
      SignalPresse(Chars(<<"a">>), Nul),
      SignalPresse(Chars(<<"b">>), Txt(Chars(<<"A">>))),
      SignalDejaScore,
      [source |-> Mot("Presse")],
      [source |-> Mot("Presse"), titre |-> Nul, entreprise |-> Txt(Chars(<<"A">>))],
      [source |-> Mot("Presse"), entreprise |-> Nul] }

\* a JSON object: the keys whose value is Absent are left out
Absent == [t |-> "absent"]

Champ(k, v) == IF v = Absent THEN <<>> ELSE [x \in {k} |-> v]

Reponse(score, tags, urgence, pertinent, entreprise) ==
    Obj(Fusion(Champ("score_ma", score),
        Fusion(Champ("signaux_identifies", tags),
        Fusion(Champ("urgence", urgence),
        Fusion(Champ("pertinent", pertinent), Champ("entreprise", entreprise))))))

ScoresIA ==
    {Absent, Nul, Mot("85")} \cup
    {Ent(n) : n \in {-90, -15, -1, 0, 1, 43, 57, 72, 85, 86, 90, 100, 101, 115, 129, 150, 300}}

TagsIA ==
    { Absent, Nul, Liste(<<>>),
      Liste(<<TagTS>>),
      Liste(<<TagTSEspace>>),
      Liste(<<Mot("Transmission"), Mot("succession")>>),
      Liste(<<TagGearing, TagTSEspace>>),
      Liste(<<TagAASEspace, TagTSEspace>>),
      Liste(<<TagTSEspace, TagTSEspace, TagTSEspace, TagTSEspace>>),
      Liste(<<Ent(3)>>) }

UrgencesIA == {Absent, Nul, Mot("critique"), Mot("fort"), Mot("modere"), Mot("CRITIQUE")}

DocumentsObjet ==
    {Reponse(sc, tg, ur, Bool(TRUE), Nul) : sc \in ScoresIA, tg \in TagsIA, ur \in UrgencesIA}
    \cup {Reponse(Ent(85), Liste(<<TagTSEspace>>), Mot("critique"), pe, en) :
            pe \in {Absent, Bool(FALSE)}, en \in {Absent, Txt(Chars(<<"B">>))}}

DocumentsAutres == {Liste(<<>>), Nul, Ent(7)}

Saut == Car("\n")

EntreFences(balise, milieu, apres) ==
    Fence \o balise \o <<Saut>> \o milieu \o <<Saut>> \o Fence \o apres

\* answers that are one JSON document, bare or fenced
TextesJson ==
    {<<Doc(v)>> : v \in DocumentsObjet \cup DocumentsAutres}
    \cup {<<Saut, Doc(Reponse(Ent(90), Absent, Absent, Absent, Absent)), Car(" ")>>}
    \cup {EntreFences(b, <<Doc(Reponse(Ent(85), Liste(<<TagTSEspace>>), Mot("fort"), Absent, Absent))>>, a) :
            b \in {<<>>, BaliseJson}, a \in {<<>>, Chars(<<"x", "x">>)}}

\* a JSON object one of whose strings holds a fence
ObjetAvecFence ==
    Obj(Fusion(Champ("score_ma", Ent(85)),
               Champ("recommandation", Txt(Chars(<<"x">>) \o Fence \o Chars(<<"y">>)))))

\* JSON object texts, and the answers wrapping them in a fence, tagged or not
TextesObjet ==
    { <<Doc(Reponse(Ent(85), Liste(<<TagTSEspace>>), Mot("fort"), Absent, Absent))>>,
      Coupe(ObjetAvecFence) }

Balises == {<<>>, BaliseJson}

TextesFenceDansJson ==
    {Coupe(ObjetAvecFence)} \cup {EntreFences(b, Coupe(ObjetAvecFence), <<>>) : b \in Balises}

\* answers json.loads refuses
TextesNonJson ==
    { <<>>,
      Chars(<<"x", "x">>),
      Repete("x", LongueurBrute + 1),
      <<Car(" ")>> \o Repete("x", LongueurBrute),
      Fence,
      Chars(<<"x">>) \o <<Doc(Reponse(Ent(85), Absent, Absent, Absent, Absent))>>,
      EntreFences(Chars(<<"J", "S", "O", "N">>),
                  <<Doc(Reponse(Ent(85), Absent, Absent, Absent, Absent))>>, <<>>),
      EntreFences(BaliseJson, Chars(<<"x">>), <<>>) }

IssuesOracle ==
    {Leve("APIConnectionError"), Leve("RateLimitError")}
    \cup {Ok(t) : t \in TextesJson \cup TextesNonJson \cup TextesFenceDansJson}

(***************************************************************************)
(* One call engine.analyser(signal).                                       *)
(***************************************************************************)
InitAnalyser ==
    /\ config \in Configs
    /\ pc = "analyser"
    /\ tous_signaux = <<>>
    /\ signaux \in {<<s>> : s \in SignauxEngine}
    /\ appels = <<>>
    /\ resultats = <<>>
    /\ retour = <<>>
    /\ exception = ""

\* the call returns r.v, or r.e reaches the caller (the oracle was not called)
FinAnalyser(issue, r) ==
    IF r.ok
    THEN /\ resultats' = <<r.v>>
         /\ appels' = <<issue>>
         /\ exception' = ""
         /\ pc' = "retourne"
    ELSE /\ resultats' = <<>>
         /\ appels' = <<>>
         /\ exception' = r.e
         /\ pc' = "leve"

Analyser ==
    /\ pc = "analyser"
    /\ \E issue \in IssuesOracle : FinAnalyser(issue, analyser(signaux[1], issue))
    /\ UNCHANGED <<config, tous_signaux, signaux, retour>>

NextAnalyser == Analyser

SpecAnalyser == InitAnalyser /\ [][NextAnalyser]_vars

(***************************************************************************)
(* One call engine.analyser_batch(signaux).  resultats keeps the results   *)
(* in the order the loop appended them, retour is the list returned (the   *)
(* same list after its sort).                                              *)
(***************************************************************************)
SignauxLot ==
    { SignalOmpic(Chars(<<"A">>)),
      SignalPresse(Chars(<<"a">>), Nul),
      [source |-> Mot("Presse"), titre |-> Nul, entreprise |-> Txt(Chars(<<"A">>))] }

IssuesLot ==
    { Leve("APIConnectionError"),
      Ok(Chars(<<"x", "x">>)),
      Ok(<<Doc(Reponse(Ent(57), Absent, Absent, Bool(TRUE), Nul))>>),
      Ok(<<Doc(Reponse(Ent(86), Absent, Absent, Bool(TRUE), Nul))>>),
      Ok(<<Doc(Reponse(Ent(100), Liste(<<TagTSEspace>>), Mot("critique"), Bool(TRUE), Nul))>>) }

InitBatch ==
    /\ config = SeuilsDefaut
    /\ pc = "batch"
    /\ tous_signaux = <<>>
    /\ signaux \in Listes(SignauxLot, MaxLot)
    /\ appels = <<>>
    /\ resultats = <<>>
    /\ retour = <<>>
    /\ exception = ""

\* the loop ended: sort and return; or analyser raised at call r.i
FinBatch(issues, r) ==
    IF r.ok
    THEN /\ resultats' = r.v
         /\ retour' = TriDecroissant(r.v)
         /\ appels' = issues
         /\ exception' = ""
         /\ pc' = "retour"
    ELSE /\ resultats' = <<>>
         /\ retour' = <<>>
         /\ appels' = SubSeq(issues, 1, r.i - 1)
         /\ exception' = r.e
         /\ pc' = "abandon"

AnalyserBatch ==
    /\ pc = "batch"
    /\ \E issues \in [1..Len(signaux) -> IssuesLot] :
          FinBatch(issues, BoucleLot(signaux, issues, 1, <<>>))
    /\ UNCHANGED <<config, tous_signaux, signaux>>

NextBatch == AnalyserBatch

SpecBatch == InitBatch /\ [][NextBatch]_vars

(***************************************************************************)
(* Properties of one call of analyser.                                     *)
(***************************************************************************)
\* the signal handed over, what the oracle did, and the signal returned
LeSignal   == signaux[1]
LIssue     == appels[1]
LeResultat == resultats[1]

Champs(d, k) == Get(d, k, Absent)

SansTagsNiUrgence(signal) ==
    /\ "signaux_identifies" \notin DOMAIN signal
    /\ "urgence_ia" \notin DOMAIN signal

\* C1: whenever analyser returns, whatever the signal and whatever the oracle
\* did (an answer with any score_ma, tags and urgency, a malformed answer, a
\* raised call), the returned signal's score_final is an integer with
\* 0 <= score_final <= 100.
C1_ScoreBorne ==
    pc = "retourne" =>
        /\ Champs(LeResultat, "score_final").t = "ent"
        /\ Champs(LeResultat, "score_final").n \in 0..100

\* the unclamped arithmetic leaves 0..100 on both sides, and the returned
\* score is the bound
C1_Temoin ==
    /\ pc = "retourne"
    /\ LIssue.ok
    /\ Champs(LeResultat, "niveau_alerte") # Mot("ERREUR")
    /\ ScoreSansBorne(LeResultat).v > 100
    /\ LeResultat.score_final = Ent(100)

\* C2: analyser never lets an exception reach its caller: for every signal
\* (title and/or company absent or null included) and everything the oracle
\* may do, the call returns a signal carrying score_final and niveau_alerte.
C2_JamaisDException ==
    pc # "analyser" =>
        /\ pc = "retourne"
        /\ exception = ""
        /\ "score_final" \in DOMAIN LeResultat
        /\ "niveau_alerte" \in DOMAIN LeResultat

\* the tier three configured thresholds give: CRITIQUE from SEUIL_CRITIQUE,
\* else VIGILANCE from SEUIL_VIGILANCE, else RADAR from SEUIL_RADAR, else FAIBLE
NiveauSelonConfig(score) ==
    IF score >= config.SEUIL_CRITIQUE THEN "CRITIQUE"
    ELSE IF score >= config.SEUIL_VIGILANCE THEN "VIGILANCE"
    ELSE IF score >= config.SEUIL_RADAR THEN "RADAR"
    ELSE "FAIBLE"

\* C6: every signal analyser scores carries the tier the three configured
\* thresholds give its score_final.
C6_TroisSeuilsConfigures ==
    (pc = "retourne" /\ Champs(LeResultat, "niveau_alerte") # Mot("ERREUR")) =>
        LeResultat.niveau_alerte = Mot(NiveauSelonConfig(LeResultat.score_final.n))

\* C7: when the oracle call raises, the returned signal has score_ia = 0,
\* pertinent = false, score_final = 0, the tier ERREUR and the error message.
C7_AppelLeve ==
    (pc = "retourne" /\ ~LIssue.ok) =>
        /\ Champs(LeResultat, "score_ia") = Ent(0)
        /\ Champs(LeResultat, "pertinent") = Bool(FALSE)
        /\ Champs(LeResultat, "score_final") = Ent(0)
        /\ Champs(LeResultat, "niveau_alerte") = Mot("ERREUR")
        /\ Champs(LeResultat, "erreur") = Mot(LIssue.e)

\* C8: when the oracle answers with text that is not JSON, the call returns
\* (no exception), the returned signal has score_ia = 0, pertinent = false,
\* the parsing-failed recommendation and the first 200 characters of the raw
\* answer, and, if the signal came in without tags or urgency, score_final 0.
C8_ReponseNonJson ==
    (pc # "analyser" /\ appels # <<>> /\ LIssue.ok /\ LIssue.v \in TextesNonJson) =>
        /\ pc = "retourne"
        /\ exception = ""
        /\ Champs(LeResultat, "score_ia") = Ent(0)
        /\ Champs(LeResultat, "pertinent") = Bool(FALSE)
        /\ Champs(LeResultat, "recommandation") = RecommandationParsing
        /\ Champs(LeResultat, "raw_ia_response") =
              Txt(IF Len(LIssue.v) <= LongueurBrute THEN LIssue.v
                  ELSE SubSeq(LIssue.v, 1, LongueurBrute))
        /\ SansTagsNiUrgence(LeSignal) => Champs(LeResultat, "score_final") = Ent(0)

\* a collector's signal, an answer longer than 200 characters that is no JSON
C8_Temoin ==
    /\ pc = "retourne"
    /\ LIssue.ok
    /\ LIssue.v \in TextesNonJson
    /\ Len(LIssue.v) > LongueurBrute
    /\ SansTagsNiUrgence(LeSignal)
    /\ Len(LeResultat.raw_ia_response.s) = LongueurBrute
    /\ LeResultat.score_final = Ent(0)
    /\ LeResultat.niveau_alerte = Mot("FAIBLE")

\* C16: for every JSON object text J, _parser_reponse gives for J wrapped in
\* a fenced block, tagged json or untagged, the result it gives for J alone.
C16_FenceTransparente ==
    (pc = "retourne" /\ LIssue.ok) =>
        \A J \in TextesObjet : \A b \in Balises :
            LIssue.v = EntreFences(b, J, <<>>) =>
                _parser_reponse(LIssue.v) = _parser_reponse(J)

ChampsCollecteur == {"source", "date", "titre", "url", "raw_text", "signal_type"}

\* C19: the signal analyser returns has the source, date, title, url,
\* raw_text and signal_type of the input signal, and a non-empty company name
\* of the input signal is still its company name, whatever the oracle did.
C19_Additif ==
    pc = "retourne" =>
        /\ \A k \in ChampsCollecteur : Champs(LeResultat, k) = Champs(LeSignal, k)
        /\ ANom(LeSignal) => NomDe(LeResultat) = NomDe(LeSignal)

\* the oracle answer of the end-to-end scenario
ReponseScenario ==
    Ok(<<Doc(Reponse(Ent(85), Liste(<<TagTS>>), Mot("critique"), Bool(TRUE), Nul))>>)

\* C13: with the default weight table and thresholds, for an oracle answer
\* with score 85, identified signals ["transmission_succession"] and critical
\* urgency, the rule transmission_succession (weight 25) matches, the
\* normalized bonus is 8, and the returned signal has score_final 77 (59 + 8,
\* plus 10 for the urgency) and the tier VIGILANCE.
C13_Scenario ==
    (pc = "retourne" /\ config = SeuilsDefaut /\ SansTagsNiUrgence(LeSignal)
        /\ LIssue = ReponseScenario) =>
        /\ BonusGrille(LeResultat.signaux_identifies.l, 1) = 25
        /\ Min2(30, BonusGrille(LeResultat.signaux_identifies.l, 1) \div 3) = 8
        /\ LeResultat.score_final = Ent(77)
        /\ LeResultat.niveau_alerte = Mot("VIGILANCE")

(***************************************************************************)
(* Properties of one call of analyser_batch.                               *)
(***************************************************************************)
NiveauDe(x) == Champs(x, "niveau_alerte")

\* the elements of l whose score_final is v, in the order of l
DeScore(l, v) == SelectSeq(l, LAMBDA x : ScoreDe(x) = v)

Scores(l) == {ScoreDe(l[i]) : i \in 1..Len(l)}

Bijections(n) == {p \in [1..n -> 1..n] : \A i, j \in 1..n : p[i] = p[j] => i = j}

\* severity of a tier; the ERREUR marker counts as the lowest
Severite(niveau) ==
    CASE niveau = Mot("CRITIQUE")  -> 3
      [] niveau = Mot("VIGILANCE") -> 2
      [] niveau = Mot("RADAR")     -> 1
      [] OTHER                     -> 0

\* C3: for any list of N signals and any mix of oracle outcomes,
\* analyser_batch returns (it is never aborted) a list of exactly N signals in
\* which the result of every input signal appears exactly once.
C3_ChaqueSignalUneFois ==
    pc # "batch" =>
        /\ pc = "retour"
        /\ exception = ""
        /\ Len(retour) = Len(signaux)
        /\ \E p \in Bijections(Len(signaux)) :
              \A i \in 1..Len(signaux) :
                  retour[p[i]] = analyser(signaux[i], appels[i]).v

\* C4: the list analyser_batch returns is ordered by non-increasing
\* score_final, and signals of equal score_final keep the relative order
\* their input signals had (resultats[i] is the result of signaux[i]).
C4_TriStable ==
    pc = "retour" =>
        /\ Len(retour) = Len(resultats)
        /\ \A i \in 1..Len(retour) : \A j \in i..Len(retour) :
              ScoreDe(retour[i]) >= ScoreDe(retour[j])
        /\ \A v \in Scores(resultats) \cup Scores(retour) :
              DeScore(retour, v) = DeScore(resultats, v)

\* the sort moved a later, higher result ahead, and two different results of
\* equal score were returned
C4_Temoin ==
    /\ pc = "retour"
    /\ Len(resultats) = 3
    /\ ScoreDe(resultats[1]) < ScoreDe(resultats[3])
    /\ ScoreDe(resultats[1]) = ScoreDe(resultats[2])
    /\ resultats[1] # resultats[2]
    /\ retour = <<resultats[3], resultats[1], resultats[2]>>

\* C5: among the signals analyser_batch returns, degraded ones included, two
\* signals of equal score_final have the same tier, and a signal of higher
\* score_final never has a less severe tier.
C5_NiveauSelonScore ==
    pc = "retour" =>
        \A i, j \in 1..Len(retour) :
            /\ ScoreDe(retour[i]) = ScoreDe(retour[j]) => NiveauDe(retour[i]) = NiveauDe(retour[j])
            /\ ScoreDe(retour[i]) > ScoreDe(retour[j]) =>
                  Severite(NiveauDe(retour[i])) >= Severite(NiveauDe(retour[j]))

EstErreur(x) == NiveauDe(x) = Mot("ERREUR")

\* C5: among the signals analyser_batch returns that do not carry the ERREUR
\* marker, equal score_final gives equal tier and a higher score_final never
\* a less severe tier; every signal carrying the ERREUR marker has
\* score_final 0.
C5_NiveauSelonScoreHorsErreur ==
    pc = "retour" =>
        /\ \A i, j \in 1..Len(retour) :
              (~EstErreur(retour[i]) /\ ~EstErreur(retour[j])) =>
                  /\ ScoreDe(retour[i]) = ScoreDe(retour[j]) =>
                        NiveauDe(retour[i]) = NiveauDe(retour[j])
                  /\ ScoreDe(retour[i]) > ScoreDe(retour[j]) =>
                        Severite(NiveauDe(retour[i])) >= Severite(NiveauDe(retour[j]))
        /\ \A i \in 1..Len(retour) :
              EstErreur(retour[i]) => Champs(retour[i], "score_final") = Ent(0)

\* a batch returning an ERREUR signal, a FAIBLE signal of the same score 0,
\* and a signal of a higher score and tier
C5_Temoin ==
    /\ pc = "retour"
    /\ Len(retour) = 3
    /\ NiveauDe(retour[1]) = Mot("CRITIQUE")
    /\ \E i, j \in 2..3 :
          /\ EstErreur(retour[i])
          /\ NiveauDe(retour[j]) = Mot("FAIBLE")
          /\ ScoreDe(retour[i]) = 0
          /\ ScoreDe(retour[j]) = 0

(***************************************************************************)
(* scrapers/ompic.py and scrapers/presse.py: the two collectors            *)
(* run_pipeline uses.  The remote source either answers with entries (the  *)
(* signals the page or the feeds yield once parsed and filtered) or makes  *)
(* the request raise.                                                      *)
(***************************************************************************)
\* longest list of entries a source answers with
MaxEntrees == 1
\* number of signals kept from each list of test data
MaxTest == 1

Joignable(l)   == [etat |-> "joignable", entrees |-> l]
Injoignable(e) == [etat |-> "leve", e |-> e]

SignalTestOmpic(e, type) ==
    [source |-> Mot("OMPIC"), entreprise |-> Mot(e), signal_type |-> Mot(type)]

SignalTestPresse(src, t, e, type) ==
    [source |-> Mot(src), titre |-> Mot(t), entreprise |-> e, signal_type |-> Mot(type)]

Debut(l) == SubSeq(l, 1, Min2(MaxTest, Len(l)))

\* OmpicScraper._donnees_test
OmpicDonneesTest ==
    Debut(<< SignalTestOmpic("DISTRIB ATLAS SARL", "changement_direction"),
             SignalTestOmpic("INDUSTRIE MAGHREB SA", "besoin_cash_bfr"),
             SignalTestOmpic("BTP NORD MAROC", "transmission_succession") >>)

\* PresseEcoScraper._donnees_test
PresseDonneesTest ==
    Debut(<< SignalTestPresse("Medias24", "Marjane annonce l'acquisition",
                              Mot("Marjane Holding"), "acquereur_actif_secteur"),
             SignalTestPresse("L'Economiste", "Label'Vie : Le conseil d'administration",
                              Mot("Label'Vie"), "transmission_succession"),
             SignalTestPresse("Challenge", "Akdital leve 500 MDH",
                              Mot("Akdital"), "besoin_cash_bfr"),
             SignalTestPresse("LesEco", "Dislog cede sa division",
                              Mot("Dislog Group"), "desinvestissement_activite"),
             SignalTestPresse("Medias24", "Secteur BTP : trois groupes marocains",
                              Nul, "acquereur_actif_secteur"),
             SignalTestPresse("MAP", "Un fonds PE emirati entre au capital",
                              Nul, "besoin_cash_bfr") >>)

\* OmpicScraper.run: a RequestException of the fetch is answered with the
\* test data, any other exception with the signals appended so far (none)
OmpicRun(source) ==
    IF source.etat = "joignable" THEN source.entrees
    ELSE IF source.e = "RequestException" THEN OmpicDonneesTest
    ELSE <<>>

\* PresseEcoScraper._parser_rss over the feeds: every exception is caught
PresseFlux(source) ==
    IF source.etat = "joignable" THEN source.entrees ELSE <<>>

\* PresseEcoScraper.run: no signal from any feed is answered with the test data
PresseRun(source) ==
    IF PresseFlux(source) = <<>> THEN PresseDonneesTest ELSE PresseFlux(source)

(***************************************************************************)
(* scoring/engine.py: generer_memo.  issue is what the oracle does at the  *)
(* call made inside the try.                                               *)
(***************************************************************************)
MemoErreur(e) == Txt(<<Car("Erreur generation memo : "), Car(e)>>)

\* a generer_memo whose except clause returns an empty text
MemoVideSiErreur(signal, issue) ==
    IF issue.ok THEN Ok(Txt(issue.v)) ELSE Ok(Vide)

generer_memo(signal, issue) ==
    IF issue.ok THEN Ok(Txt(issue.v)) ELSE Ok(MemoErreur(issue.e))

(***************************************************************************)
(* main.py: run_pipeline.  appels is the journal of the calls the run has  *)
(* made, in order: each entry holds the callee, its argument, what the     *)
(* environment did during the call and what the call gave back.  retour is *)
(* signaux_scores; critiques, vigilances and radar hold the same objects,  *)
(* so they are positions of retour.                                        *)
(***************************************************************************)
Appel(nom, arg, issue, rendu) ==
    [appel |-> nom, arg |-> arg, issue |-> issue, rendu |-> rendu]

\* [s for s in signaux_scores if s.get("niveau_alerte") == niveau]
DeNiveau(l, niveau) ==
    SelectSeq([i \in 1..Len(l) |-> i],
              LAMBDA i : Get(l[i], "niveau_alerte", Nul) = Mot(niveau))

Appels(nom) == SelectSeq(appels, LAMBDA a : a.appel = nom)

\* the memos the loop has gone through so far
NbMemos == Len(Appels("_sauvegarder_memo"))

\* the environment of a collector: its constructor raises, or its source
\* behaves as s
Environnements(sources) == {Leve("Exception")} \cup {Ok(s) : s \in sources}

SourcesOmpic ==
    {Joignable(l) : l \in Listes({SignalOmpic(Chars(<<"A">>)), SignalOmpic(<<>>)}, MaxEntrees)}
        \cup {Injoignable("RequestException"), Injoignable("Exception")}

SourcesPresse ==
    {Joignable(l) : l \in Listes({SignalPresse(Chars(<<"a">>), Nul),
                                  SignalPresse(Chars(<<"J">>), Nul)}, MaxEntrees)}
        \cup {Injoignable("RequestException")}

\* what the oracle does at a scoring call of the run: as in a batch, and an
\* answer that scores CRITIQUE while marking the signal not pertinent
IssuesPipeline ==
    IssuesLot \cup
    {Ok(<<Doc(Reponse(Ent(100), Absent, Mot("critique"), Bool(FALSE), Nul))>>)}

\* response.content[0].text of the memo call, or the exception it raises
IssuesMemo == {Ok(Chars(<<"m">>)), Leve("APIConnectionError")}

\* open() and write() of _sauvegarder_memo
IssuesFichier == {Ok(Nul), Leve("OSError")}

InitPipeline ==
    /\ config = SeuilsDefaut
    /\ pc = "collecte_ompic"
    /\ tous_signaux = <<>>
    /\ signaux = <<>>
    /\ appels = <<>>
    /\ resultats = <<>>
    /\ retour = <<>>
    /\ exception = ""

\* a collection whose except clause also drops what was collected before
CollecteEfface(nom, env, rendu) ==
    /\ tous_signaux' = IF rendu.ok THEN tous_signaux \o rendu.v ELSE <<>>
    /\ appels' = Append(appels, Appel(nom, Nul, env, rendu))
    /\ UNCHANGED <<config, signaux, resultats, retour, exception>>

\* try: scraper = X(); l = scraper.run(); tous_signaux.extend(l)
\* except Exception: log
Collecte(nom, env, rendu) ==
    /\ tous_signaux' = IF rendu.ok THEN tous_signaux \o rendu.v ELSE tous_signaux
    /\ appels' = Append(appels, Appel(nom, Nul, env, rendu))
    /\ UNCHANGED <<config, signaux, resultats, retour, exception>>

CollecteOmpic ==
    /\ pc = "collecte_ompic"
    /\ \E env \in Environnements(SourcesOmpic) :
          Collecte("OmpicScraper", env, IF env.ok THEN Ok(OmpicRun(env.v)) ELSE env)
    /\ pc' = "collecte_presse"

CollectePresse ==
    /\ pc = "collecte_presse"
    /\ \E env \in Environnements(SourcesPresse) :
          Collecte("PresseEcoScraper", env, IF env.ok THEN Ok(PresseRun(env.v)) ELSE env)
    /\ pc' = "dedup"

\* if not tous_signaux: warning; return
AucunSignal ==
    /\ pc = "dedup"
    /\ tous_signaux = <<>>
    /\ appels' = Append(appels, Appel("warning", Nul, Ok(Nul), Ok(Nul)))
    /\ pc' = "fin"
    /\ UNCHANGED <<config, tous_signaux, signaux, resultats, retour, exception>>

\* signaux_uniques = _dedupliquer(tous_signaux)
FinDedupPipeline(r) ==
    /\ appels' = Append(appels, Appel("_dedupliquer", Nul, Ok(Nul), r))
    /\ signaux' = IF r.ok THEN r.v ELSE signaux
    /\ exception' = IF r.ok THEN "" ELSE r.e
    /\ pc' = IF r.ok THEN "scoring" ELSE "abandon"

DedupPipeline ==
    /\ pc = "dedup"
    /\ tous_signaux # <<>>
    /\ FinDedupPipeline(_dedupliquer(tous_signaux))
    /\ UNCHANGED <<config, tous_signaux, resultats, retour>>

\* engine = ScoringEngine(); signaux_scores = engine.analyser_batch(signaux_uniques)
AppelsAnalyser(issues, n) ==
    [i \in 1..n |-> Appel("analyser", signaux[i], issues[i], analyser(signaux[i], issues[i]))]

FinScoring(issues, r) ==
    IF r.ok
    THEN /\ resultats' = r.v
         /\ retour' = TriDecroissant(r.v)
         /\ appels' = Append(appels, Appel("analyser_batch", Nul, Ok(Nul), Ok(Nul)))
                         \o AppelsAnalyser(issues, Len(signaux))
         /\ exception' = ""
         /\ pc' = "memos"
    ELSE /\ resultats' = <<>>
         /\ retour' = <<>>
         /\ appels' = Append(appels, Appel("analyser_batch", Nul, Ok(Nul), Ok(Nul)))
                         \o AppelsAnalyser(issues, r.i)
         /\ exception' = r.e
         /\ pc' = "abandon"

Scoring ==
    /\ pc = "scoring"
    /\ \E issues \in [1..Len(signaux) -> IssuesPipeline] :
          FinScoring(issues, BoucleLot(signaux, issues, 1, <<>>))
    /\ UNCHANGED <<config, tous_signaux, signaux>>

\* one turn of "for signal in critiques": memo = engine.generer_memo(signal);
\* signal["memo_origination"] = memo; _sauvegarder_memo(signal).  An exception
\* of _sauvegarder_memo is not caught.
AvecMemo(signal, memo) == Fusion(signal, [memo_origination |-> memo])

TourMemo(i, issue, memo, fichier) ==
    /\ retour' = [retour EXCEPT ![i] = AvecMemo(retour[i], memo.v)]
    /\ appels' = appels \o
          << Appel("generer_memo", retour[i], issue, memo),
             Appel("_sauvegarder_memo", AvecMemo(retour[i], memo.v), fichier, fichier) >>
    /\ exception' = IF fichier.ok THEN "" ELSE fichier.e
    /\ pc' = IF fichier.ok THEN "memos" ELSE "abandon"

Memo ==
    /\ pc = "memos"
    /\ NbMemos < Len(DeNiveau(retour, "CRITIQUE"))
    /\ \E issue \in IssuesMemo, fichier \in IssuesFichier :
          TourMemo(DeNiveau(retour, "CRITIQUE")[NbMemos + 1], issue,
                   generer_memo(retour[DeNiveau(retour, "CRITIQUE")[NbMemos + 1]], issue),
                   fichier)
    /\ UNCHANGED <<config, tous_signaux, signaux, resultats>>

\* _generer_rapport(critiques, vigilances, radar, debut), then the run ends
Rapport ==
    /\ pc = "memos"
    /\ NbMemos = Len(DeNiveau(retour, "CRITIQUE"))
    /\ appels' = Append(appels,
          Appel("_generer_rapport",
                [critiques  |-> Len(DeNiveau(retour, "CRITIQUE")),
                 vigilances |-> Len(DeNiveau(retour, "VIGILANCE")),
                 radar      |-> Len(DeNiveau(retour, "RADAR"))],
                Ok(Nul), Ok(Nul)))
    /\ pc' = "fin"
    /\ UNCHANGED <<config, tous_signaux, signaux, resultats, retour, exception>>

NextPipeline ==
    \/ CollecteOmpic
    \/ CollectePresse
    \/ AucunSignal
    \/ DedupPipeline
    \/ Scoring
    \/ Memo
    \/ Rapport

SpecPipeline == InitPipeline /\ [][NextPipeline]_vars

(***************************************************************************)
(* Properties of a pipeline run.                                           *)
(***************************************************************************)
SansMemo(s) == [k \in (DOMAIN s) \ {"memo_origination"} |-> s[k]]

\* the calls of generer_memo made for the scored signal at position i
MemosDe(i) ==
    SelectSeq(Appels("generer_memo"), LAMBDA a : a.arg = SansMemo(retour[i]))

EstCritique(i) == NiveauDe(retour[i]) = Mot("CRITIQUE")

\* the run is over: it returned or an exception left run_pipeline
RunFini == pc \in {"fin", "abandon"}

\* no memo for a signal that is not CRITIQUE, never two for one signal
MemoSeulementCritique ==
    \A i \in 1..Len(retour) :
        /\ Len(MemosDe(i)) <= 1
        /\ Len(MemosDe(i)) = 1 => EstCritique(i) /\ ScoreDe(retour[i]) >= config.SEUIL_CRITIQUE

\* C14: once a pipeline run is over, generer_memo has been called exactly
\* once for each scored signal whose tier is CRITIQUE and not at all for the
\* scored signals of any other tier.
C14_MemoSiEtSeulementSiCritique ==
    /\ MemoSeulementCritique
    /\ RunFini => \A i \in 1..Len(retour) : EstCritique(i) => Len(MemosDe(i)) = 1

\* the k-th entry of the journal is a call of generer_memo whose oracle
\* call raised
MemoEnPanne(k) ==
    /\ k \in 1..Len(appels)
    /\ appels[k].appel = "generer_memo"
    /\ ~appels[k].issue.ok

\* the number of calls of generer_memo among the first k entries
MemosJusqua(k) ==
    Len(SelectSeq(SubSeq(appels, 1, k), LAMBDA a : a.appel = "generer_memo"))

\* C15: when the oracle call of generer_memo raises, generer_memo returns the
\* text "Erreur generation memo : <reason>" and raises nothing: the text is
\* attached to the signal, the signal is saved, and if the save succeeds and
\* a CRITIQUE signal is left the loop goes on with the memo of that signal.
C15_MemoEnPanneRendUnTexte ==
    \A k \in 1..Len(appels) :
        MemoEnPanne(k) =>
            /\ appels[k].rendu = Ok(MemoErreur(appels[k].issue.e))
            /\ k + 1 <= Len(appels)
            /\ appels[k + 1].appel = "_sauvegarder_memo"
            /\ appels[k + 1].arg = AvecMemo(appels[k].arg, MemoErreur(appels[k].issue.e))
            /\ (appels[k + 1].issue.ok /\ MemosJusqua(k) < Len(DeNiveau(retour, "CRITIQUE"))) =>
                  IF k + 1 = Len(appels) THEN pc = "memos"
                  ELSE appels[k + 2].appel = "generer_memo"

\* a memo whose oracle call raised, saved, then the memo of the next signal
C15_Temoin ==
    \E k \in 1..Len(appels) :
        /\ MemoEnPanne(k)
        /\ k + 2 <= Len(appels)
        /\ appels[k + 1].issue.ok
        /\ appels[k + 2].appel = "generer_memo"

\* the two collector calls of the run, once both are over
CollectesFinies == pc \notin {"collecte_ompic", "collecte_presse"}

Contribution(a) == IF a.rendu.ok THEN a.rendu.v ELSE <<>>

UnCollecteurALeve == CollectesFinies /\ (~appels[1].rendu.ok \/ ~appels[2].rendu.ok)

ScoringFait == Appels("analyser_batch") # <<>> /\ pc # "scoring"

\* C17: when a collector raises, run_pipeline goes on: the signals of the
\* other collector are all of tous_signaux, they are deduplicated, each
\* signal kept is scored, and no exception of the collector leaves the run.
C17_IsolementDesCollecteurs ==
    UnCollecteurALeve =>
        /\ tous_signaux = Contribution(appels[1]) \o Contribution(appels[2])
        /\ pc \notin {"dedup", "fin"} => signaux = _dedupliquer(tous_signaux).v
        /\ (pc = "fin" /\ tous_signaux # <<>>) => signaux = _dedupliquer(tous_signaux).v
        /\ ScoringFait =>
              /\ [i \in 1..Len(signaux) |-> Appels("analyser")[i].arg] = signaux
              /\ Len(retour) = Len(signaux)
              /\ \A i \in 1..Len(signaux) : \E j \in 1..Len(retour) :
                    SansMemo(retour[j]) = Appels("analyser")[i].rendu.v
        /\ pc = "abandon" => exception = "OSError"

\* one collector raised and the signal of the other one was scored
C17_Temoin ==
    /\ UnCollecteurALeve
    /\ ScoringFait
    /\ retour # <<>>

\* the source of the k-th call (a collector) could not be reached
SourceInjoignable(k) ==
    /\ appels[k].appel \in {"OmpicScraper", "PresseEcoScraper"}
    /\ appels[k].issue.ok
    /\ appels[k].issue.v.etat = "leve"

\* C18: a collector whose source cannot be reached returns an empty list and
\* raises nothing: it adds no signal to the run.
C18_SourceInjoignableSansSignal ==
    \A k \in 1..Len(appels) : SourceInjoignable(k) => appels[k].rendu = Ok(<<>>)

\* no signal is left after collection and deduplication
AucunSurvivant == pc \notin {"collecte_ompic", "collecte_presse", "dedup"} /\ signaux = <<>>

\* C20: when no signal is left after collection and deduplication, the run
\* ends with a warning and without a call of analyser_batch, of the oracle,
\* of generer_memo or of _generer_rapport.
C20_FinSansSignal ==
    AucunSurvivant =>
        /\ Appels("analyser_batch") = <<>>
        /\ Appels("analyser") = <<>>
        /\ Appels("generer_memo") = <<>>
        /\ Appels("_generer_rapport") = <<>>
        /\ RunFini => pc = "fin" /\ Appels("warning") # <<>>

(***************************************************************************)
(* Properties of the score analyser computes.                              *)
(***************************************************************************)
TagsDe(x)    == Get(x, "signaux_identifies", Liste(<<>>))
UrgenceDe(x) == Get(x, "urgence_ia", Mot("faible"))
ScoreIADe(x) == Get(x, "score_ia", Ent(0))

\* analyser returned a signal whose score _calculer_score_final computed
ScoreCalcule ==
    /\ pc = "retourne"
    /\ "erreur" \notin DOMAIN LeResultat
    /\ _calculer_score_final(LeResultat).ok

\* the un-normalized bonus of the returned signal
BonusDe(x) == BonusGrille(TagsDe(x).l, 1)

LesPoids == {SCORING_WEIGHTS[k].poids : k \in 1..Len(SCORING_WEIGHTS)}

\* C21: whatever the tag list, the un-normalized bonus is 0 or the weight of
\* one rule of the table; it does not grow with the number of tags.
C21_UneSeuleRegle ==
    ScoreCalcule => BonusDe(LeResultat) \in {0} \cup LesPoids

\* the keys of the table whose form with spaces is in the lower-cased tags
\* joined by spaces
ClesPresentes(tags) ==
    {k \in 1..Len(SCORING_WEIGHTS) :
        Contient(Lower(Join(tags)), Replace(SCORING_WEIGHTS[k].cle))}

EstLaPremiere(k, tags) ==
    k \in ClesPresentes(tags) /\ \A m \in ClesPresentes(tags) : k <= m

\* C22: the weight that enters the bonus is that of the earliest key of the
\* table, in declared order, whose form with spaces is a substring of the
\* lower-cased space-joined tags (the bonus is that weight once per tag); no
\* later key counts, and without a match or without tags the bonus is 0.
C22_PremiereCleDeLaTable ==
    ScoreCalcule =>
        /\ \A k \in 1..Len(SCORING_WEIGHTS) :
              EstLaPremiere(k, TagsDe(LeResultat).l) =>
                  BonusDe(LeResultat) = Len(TagsDe(LeResultat).l) * SCORING_WEIGHTS[k].poids
        /\ ClesPresentes(TagsDe(LeResultat).l) = {} => BonusDe(LeResultat) = 0
        /\ TagsDe(LeResultat).l = <<>> => BonusDe(LeResultat) = 0

\* two keys match, the first tag names the later one of the table
C22_Temoin ==
    /\ ScoreCalcule
    /\ Cardinality(ClesPresentes(TagsDe(LeResultat).l)) = 2
    /\ TagsDe(LeResultat).l[1] = TagAASEspace
    /\ BonusDe(LeResultat) = 2 * 25

Surcote(u) == IF u = Mot("critique") THEN 10 ELSE IF u = Mot("fort") THEN 5 ELSE 0

\* C23: for an oracle score s in 0..100, a bonus b and an urgency u, the
\* score returned is floor(7*s/10) + min(30, floor(b/3)) + U(u), kept
\* within 0..100.
C23_Formule ==
    (ScoreCalcule /\ ScoreIADe(LeResultat).n \in 0..100) =>
        LeResultat.score_final =
            Ent(Min2(100, Max2(0, (7 * ScoreIADe(LeResultat).n) \div 10
                                  + Min2(30, BonusDe(LeResultat) \div 3)
                                  + Surcote(UrgenceDe(LeResultat)))))

\* valid JSON that is not the object expected: not an object, or an object
\* whose score or tag list is null
SchemaIncorrect(texte) ==
    /\ Len(texte) = 1
    /\ EstDoc(texte[1])
    /\ IF texte[1].doc.t # "obj" THEN TRUE
       ELSE \/ Get(texte[1].doc.d, "score_ma", Ent(0)) = Nul
            \/ Get(texte[1].doc.d, "signaux_identifies", Liste(<<>>)) = Nul

\* C26: when analyser returns after an answer that is valid JSON but not the
\* expected object, the returned signal is degraded as for text that is not
\* JSON (score_ia 0, pertinent false, the parsing-failed recommendation)
\* and holds the first 200 characters of the answer in raw_ia_response.
C26_SchemaIncorrectDegrade ==
    (pc = "retourne" /\ LIssue.ok /\ SchemaIncorrect(LIssue.v)) =>
        \A k \in DOMAIN ParseDegrade(LIssue.v) :
            Champs(LeResultat, k) = ParseDegrade(LIssue.v)[k]

(***************************************************************************)
(* Properties of the calls analyser_batch makes.                           *)
(***************************************************************************)
\* C24: once analyser_batch is over, it has made one scoring oracle call per
\* input signal, in input order: the i-th call is the one whose answer made
\* the i-th result from the i-th signal, each call being over before the
\* next one starts.
C24_UnAppelParSignalDansLOrdre ==
    pc # "batch" =>
        /\ Len(appels) = Len(signaux)
        /\ Len(resultats) = Len(signaux)
        /\ \A i \in 1..Len(signaux) : Ok(resultats[i]) = analyser(signaux[i], appels[i])

(***************************************************************************)
(* Properties of the memo and report phases of a pipeline run.             *)
(***************************************************************************)
SauvegardeEnEchec(k) ==
    /\ appels[k].appel = "_sauvegarder_memo"
    /\ ~appels[k].issue.ok

\* C25: a failure of the save of one memo does not stop the run: no
\* exception leaves run_pipeline, and the run ends with a memo generated
\* for every CRITIQUE signal and with the daily report.
C25_EchecDeSauvegardeAvale ==
    \A k \in 1..Len(appels) :
        SauvegardeEnEchec(k) =>
            /\ pc # "abandon"
            /\ exception = ""
            /\ RunFini =>
                  /\ Appels("_generer_rapport") # <<>>
                  /\ \A i \in 1..Len(retour) : EstCritique(i) => Len(MemosDe(i)) = 1

EstNonPertinent(x) == Get(x, "pertinent", Bool(TRUE)) = Bool(FALSE)

\* the positions of signaux_scores placed in one of the three lists
Retenus ==
    {DeNiveau(retour, "CRITIQUE")[j]  : j \in 1..Len(DeNiveau(retour, "CRITIQUE"))}
    \cup {DeNiveau(retour, "VIGILANCE")[j] : j \in 1..Len(DeNiveau(retour, "VIGILANCE"))}
    \cup {DeNiveau(retour, "RADAR")[j]     : j \in 1..Len(DeNiveau(retour, "RADAR"))}

\* C27: a scored signal the oracle marked not pertinent is in none of the
\* lists critiques, vigilances and radar, and generer_memo is never called
\* for it, whatever its score_final.
C27_FiltreDesPertinents ==
    \A i \in 1..Len(retour) :
        EstNonPertinent(retour[i]) => i \notin Retenus /\ MemosDe(i) = <<>>

\* the positions in the journal of the calls of one callee
PositionsDe(nom) == {k \in 1..Len(appels) : appels[k].appel = nom}

\* C28: the scoring calls of all deduplicated signals come before the first
\* memo call; the memo calls follow the CRITIQUE signals by non-increasing
\* score_final; each memo is attached to its signal, the signal is saved
\* with it in the next call, and it is the same signal in signaux_scores
\* from then on.
C28_PhasesOrdonnees ==
    /\ \A k \in PositionsDe("generer_memo") :
          /\ \A m \in PositionsDe("analyser") : m < k
          /\ [i \in 1..Len(Appels("analyser")) |-> Appels("analyser")[i].arg] = signaux
          /\ "memo_origination" \notin DOMAIN appels[k].arg
          /\ k + 1 \in PositionsDe("_sauvegarder_memo")
          /\ appels[k + 1].arg = AvecMemo(appels[k].arg, appels[k].rendu.v)
    /\ \A i, j \in 1..Len(Appels("generer_memo")) :
          i < j => ScoreDe(Appels("generer_memo")[i].arg) >= ScoreDe(Appels("generer_memo")[j].arg)
    /\ \A k \in PositionsDe("_sauvegarder_memo") :
          /\ k - 1 \in PositionsDe("generer_memo")
          /\ \E i \in 1..Len(retour) : retour[i] = appels[k].arg

\* two memos, for signals of different scores, both saved, and the report
C28_Temoin ==
    /\ pc = "fin"
    /\ Len(Appels("generer_memo")) = 2
    /\ ScoreDe(Appels("generer_memo")[1].arg) > ScoreDe(Appels("generer_memo")[2].arg)
    /\ \A k \in PositionsDe("_sauvegarder_memo") : appels[k].issue.ok

====
